---------------------------- MODULE Spec2Model ----------------------------
(***************************************************************************)
(* ProjectSnapshot (src/ReactNative.py): the snapshot file format, the     *)
(* parser that rebuilds the previous state from it, the classification of  *)
(* changes and the writer of the next snapshot.                            *)
(*                                                                         *)
(* Text is a sequence of one-character strings, so that split, strip,      *)
(* startswith and the separator line act on characters as they do in the   *)
(* program.                                                                *)
(***************************************************************************)
EXTENDS Integers, Sequences, FiniteSets, TLC

VARIABLES
    project_files,       \* the project tree: a set of [path, content, readable]
    config,              \* the four lists create_snapshot is called with
    snapshot_file,       \* the snapshot file: [exists, text]
    now,                 \* the wall clock, in seconds
    pc,                  \* "start" (no process), "ready" (constructed), "called"
    previous_snapshots,  \* self.previous_snapshots, in insertion order
    raised,              \* an exception escaped load_previous_snapshots
    runs,                \* processes started so far
    faults,              \* I/O failures injected so far
    last,                \* what the last create_snapshot computed and returned
    shadow               \* bookkeeping of earlier runs, read by the properties only

vars == <<project_files, config, snapshot_file, now, pc, previous_snapshots,
          raised, runs, faults, last, shadow>>

---------------------------------------------------------------------------
(* Bounds of the model.                                                    *)

MaxRuns == 2

MaxFaults == 1

MaxLines == 2

---------------------------------------------------------------------------
(* Literals of the program.                                                *)

NL == <<"\n">>

SeparatorWidth == 50

SEPARATOR == [i \in 1..SeparatorWidth |-> "="]

\* '=' * 50 + '\n'
SEPARATOR_LINE == SEPARATOR \o <<"\n">>

FILE_PREFIX == <<"F", "i", "l", "e", ":", " ">>

FINAL_CONTENT == <<"F", "I", "N", "A", "L", " ", "C", "O", "N", "T", "E", "N", "T", ":">>

STATUS_NEW == <<"N", "E", "W">>

STATUS_DELETED == <<"D", "E", "L", "E", "T", "E", "D">>

SNAPSHOT_CREATED_AT == <<"S", "n", "a", "p", "s", "h", "o", "t", " ", "c", "r", "e", "a", "t", "e", "d", " ", "a", "t", ":">>

PROJECT_STRUCTURE == <<"P", "r", "o", "j", "e", "c", "t", " ", "S", "t", "r", "u", "c", "t", "u", "r", "e", ":">>

END_PROJECT_STRUCTURE == <<"E", "n", "d", " ", "P", "r", "o", "j", "e", "c", "t", " ", "S", "t", "r", "u", "c", "t", "u", "r", "e">>

---------------------------------------------------------------------------
(* str methods, as Python defines them.                                    *)

\* a local variable: v is computed once and F reads the value
Let(v, F(_)) == CHOOSE r \in {F(x) : x \in {v}} : TRUE

Whitespace == {" ", "\n"}

StartsWith(s, p) == Len(p) <= Len(s) /\ \A k \in 1..Len(p) : s[k] = p[k]

EndsWith(s, p) ==
    Len(p) <= Len(s) /\ \A k \in 1..Len(p) : s[Len(s) - Len(p) + k] = p[k]

MatchAt(s, p, i) ==
    i + Len(p) - 1 <= Len(s) /\ \A k \in 1..Len(p) : s[i + k - 1] = p[k]

\* str.find from index i (1-based); 0 when p does not occur
Find(s, p, i) ==
    Let({k \in i..(Len(s) - Len(p) + 1) : MatchAt(s, p, k)},
        LAMBDA hits : IF hits = {} THEN 0
                      ELSE CHOOSE k \in hits : \A j \in hits : k <= j)

Contains(s, p) == Find(s, p, 1) # 0

\* s.split(sep), sep non-empty: the pieces that start at index from
RECURSIVE SplitFrom(_, _, _)
SplitFrom(s, sep, from) ==
    Let(Find(s, sep, from),
        LAMBDA i : IF i = 0 THEN <<SubSeq(s, from, Len(s))>>
                   ELSE <<SubSeq(s, from, i - 1)>> \o SplitFrom(s, sep, i + Len(sep)))

Split(s, sep) == Let(s, LAMBDA t : SplitFrom(t, sep, 1))

\* s.split(sep, 1)
SplitOnce(s, sep) ==
    Let(Find(s, sep, 1),
        LAMBDA i : IF i = 0 THEN <<s>>
                   ELSE <<SubSeq(s, 1, i - 1), SubSeq(s, i + Len(sep), Len(s))>>)

\* the first index from i on that holds no whitespace
RECURSIVE SkipWhitespace(_, _)
SkipWhitespace(s, i) ==
    IF i <= Len(s) /\ s[i] \in Whitespace THEN SkipWhitespace(s, i + 1) ELSE i

\* the last index up to i that holds no whitespace
RECURSIVE SkipWhitespaceBack(_, _)
SkipWhitespaceBack(s, i) ==
    IF i >= 1 /\ s[i] \in Whitespace THEN SkipWhitespaceBack(s, i - 1) ELSE i

\* s.strip()
Strip(s) ==
    Let(s, LAMBDA t : SubSeq(t, SkipWhitespace(t, 1), SkipWhitespaceBack(t, Len(t))))

\* s.replace(old, new), old non-empty: from index from on
RECURSIVE ReplaceFrom(_, _, _, _)
ReplaceFrom(s, old, new, from) ==
    Let(Find(s, old, from),
        LAMBDA i : IF i = 0 THEN SubSeq(s, from, Len(s))
                   ELSE SubSeq(s, from, i - 1) \o new
                        \o ReplaceFrom(s, old, new, i + Len(old)))

Replace(s, old, new) == Let(s, LAMBDA t : ReplaceFrom(t, old, new, 1))

\* sep.join(parts): from entry i on
RECURSIVE JoinFrom(_, _, _)
JoinFrom(parts, sep, i) ==
    IF i > Len(parts) THEN <<>>
    ELSE IF i = Len(parts) THEN parts[i]
    ELSE parts[i] \o sep \o JoinFrom(parts, sep, i + 1)

Join(parts, sep) == Let(parts, LAMBDA ps : JoinFrom(ps, sep, 1))

\* s.splitlines(): no entry for the text after a final line break
SplitLines(s) ==
    Let(s, LAMBDA t :
        IF t = <<>> THEN <<>>
        ELSE Let(Split(t, NL),
                 LAMBDA parts : IF parts[Len(parts)] = <<>>
                                THEN SubSeq(parts, 1, Len(parts) - 1)
                                ELSE parts))

\* the concatenation of the texts parts[i..n]
RECURSIVE ConcatFrom(_, _, _)
ConcatFrom(parts, i, n) ==
    IF i > n THEN <<>> ELSE parts[i] \o ConcatFrom(parts, i + 1, n)

Concat(parts) == Let(parts, LAMBDA ps : ConcatFrom(ps, 1, Len(ps)))

RECURSIVE Repeat(_, _)
Repeat(s, n) == IF n <= 0 THEN <<>> ELSE s \o Repeat(s, n - 1)

---------------------------------------------------------------------------
(* dict, in insertion order: a sequence of [file, content] with unique     *)
(* keys.                                                                   *)

Keys(d) == {d[i].file : i \in 1..Len(d)}

HasKey(d, k) == \E i \in 1..Len(d) : d[i].file = k

Get(d, k) == d[CHOOSE i \in 1..Len(d) : d[i].file = k].content

\* d[k] = v: an existing key keeps its place
DictSet(d, k, v) ==
    IF HasKey(d, k)
    THEN Let(CHOOSE j \in 1..Len(d) : d[j].file = k,
             LAMBDA i : SubSeq(d, 1, i - 1) \o <<[file |-> k, content |-> v]>>
                        \o SubSeq(d, i + 1, Len(d)))
    ELSE Append(d, [file |-> k, content |-> v])

\* the mapping a dict stands for, order forgotten
AsMap(d) == {<<d[i].file, d[i].content>> : i \in 1..Len(d)}

---------------------------------------------------------------------------
(* load_previous_snapshots                                                 *)

None == [some |-> FALSE, val |-> <<>>]

Some(v) == [some |-> TRUE, val |-> v]

\* truth value of an Optional[str]
Truthy(o) == o.some /\ o.val # <<>>

\* the commit of lines 154-155 and 173-174
CommitPending(st) ==
    IF Truthy(st.current_file) /\ st.current_content # <<>>
    THEN DictSet(st.snapshots, st.current_file.val, Join(st.current_content, NL))
    ELSE st.snapshots

\* AppendLine without the status test of line 169
AppendLineAnyStatus(st, line) ==
    IF st.in_final_content
    THEN [st EXCEPT !.current_content = Append(@, line)]
    ELSE st

\* the line 169 test: only lines of the final content, and no status line
AppendLine(st, line) ==
    IF st.in_final_content
       /\ ~(StartsWith(line, STATUS_NEW) \/ StartsWith(line, STATUS_DELETED))
    THEN [st EXCEPT !.current_content = Append(@, line)]
    ELSE st

\* ParseLine without the reset of the buffer at the marker (line 165)
ParseLineKeepingBuffer(st, line) ==
    IF StartsWith(line, FILE_PREFIX)
    THEN [st EXCEPT !.snapshots = CommitPending(st),
                    !.current_file = Some(Strip(Replace(line, FILE_PREFIX, <<>>))),
                    !.current_content = <<>>,
                    !.in_final_content = FALSE]
    ELSE Let(Strip(line),
             LAMBDA stripped :
                IF stripped = FINAL_CONTENT
                THEN [st EXCEPT !.in_final_content = TRUE]
                ELSE IF stripped # <<>> /\ ~StartsWith(line, SNAPSHOT_CREATED_AT)
                THEN AppendLine(st, line)
                ELSE st)

\* one pass of the loop body of lines 151-170
ParseLine(st, line) ==
    IF StartsWith(line, FILE_PREFIX)
    THEN [st EXCEPT !.snapshots = CommitPending(st),
                    !.current_file = Some(Strip(Replace(line, FILE_PREFIX, <<>>))),
                    !.current_content = <<>>,
                    !.in_final_content = FALSE]
    ELSE Let(Strip(line),
             LAMBDA stripped :
                IF stripped = FINAL_CONTENT
                THEN [st EXCEPT !.in_final_content = TRUE, !.current_content = <<>>]
                ELSE IF stripped # <<>> /\ ~StartsWith(line, SNAPSHOT_CREATED_AT)
                THEN AppendLine(st, line)
                ELSE st)

\* the loop of line 151
RECURSIVE ParseLines(_, _, _)
ParseLines(st, lines, i) ==
    IF i > Len(lines) THEN st
    ELSE Let(ParseLine(st, lines[i]), LAMBDA st2 : ParseLines(st2, lines, i + 1))

\* lines 146-150: blank sections are skipped, the others stripped and split
SectionLines(section) ==
    Let(Strip(section),
        LAMBDA stripped : IF stripped = <<>> THEN <<>> ELSE Split(stripped, NL))

\* the loop of line 146
RECURSIVE ParseSections(_, _, _)
ParseSections(st, sections, i) ==
    IF i > Len(sections) THEN st
    ELSE Let(SectionLines(sections[i]),
             LAMBDA lines :
                Let(ParseLines(st, lines, 1),
                    LAMBDA st2 : ParseSections(st2, sections, i + 1)))

\* lines 136-137: [ok |-> FALSE] is the IndexError of split(...)[1]
DropHeader(content) ==
    IF Contains(content, PROJECT_STRUCTURE)
    THEN Let(SplitOnce(content, END_PROJECT_STRUCTURE),
             LAMBDA parts : IF Len(parts) < 2 THEN [ok |-> FALSE, content |-> <<>>]
                            ELSE [ok |-> TRUE, content |-> parts[2]])
    ELSE [ok |-> TRUE, content |-> content]

\* lines 140-174, on the text left after the header
ParseBlocks(content, snapshots) ==
    Let(Split(content, SEPARATOR_LINE),
        LAMBDA sections :
            Let(ParseSections([current_file |-> None, current_content |-> <<>>,
                               in_final_content |-> FALSE, snapshots |-> snapshots],
                              sections, 1),
                LAMBDA st : CommitPending(st)))

\* lines 133-174, the body of the try: the exception it ends with, if any.
\* read_ok: open() and read() succeed (lines 133-134)
ReadAndParse(file, snapshots, read_ok) ==
    IF ~read_ok THEN [exc |-> "OSError", previous_snapshots |-> snapshots]
    ELSE Let(DropHeader(file.text),
             LAMBDA body :
                IF ~body.ok
                THEN [exc |-> "IndexError", previous_snapshots |-> snapshots]
                ELSE [exc |-> "none",
                      previous_snapshots |-> ParseBlocks(body.content, snapshots)])

\* load_previous_snapshots with a handler for OSError alone: the IndexError
\* of line 137 leaves the method
load_previous_snapshots_except_OSError(file, snapshots, read_ok) ==
    IF ~file.exists THEN [raised |-> FALSE, previous_snapshots |-> snapshots]
    ELSE Let(ReadAndParse(file, snapshots, read_ok),
             LAMBDA r :
                IF r.exc = "OSError" THEN [raised |-> FALSE, previous_snapshots |-> <<>>]
                ELSE [raised |-> r.exc # "none",
                      previous_snapshots |-> r.previous_snapshots])

\* lines 128-178: the new self.previous_snapshots, and whether an exception
\* leaves the method; the handler of line 176 catches every Exception
load_previous_snapshots(file, snapshots, read_ok) ==
    IF ~file.exists THEN [raised |-> FALSE, previous_snapshots |-> snapshots]
    ELSE Let(ReadAndParse(file, snapshots, read_ok),
             LAMBDA r :
                IF r.exc # "none" THEN [raised |-> FALSE, previous_snapshots |-> <<>>]
                ELSE [raised |-> FALSE, previous_snapshots |-> r.previous_snapshots])

---------------------------------------------------------------------------
(* The scan of create_snapshot, lines 210-232.                             *)

\* the characters of the model's texts, in code point order
CharOrder ==
    <<"\n", " ", "+", ",", "-", ".", "/",
      "0", "1", "2", "3", "4", "5", "6", "7", "8", "9", ":", "=", "@",
      "A", "C", "D", "E", "F", "I", "L", "N", "O", "P", "S", "T", "W", "_",
      "a", "b", "c", "d", "e", "f", "g", "h", "i", "j", "k", "l", "m", "n",
      "o", "p", "q", "r", "s", "t", "u", "v", "w", "x", "y", "z">>

Ord(c) == CHOOSE i \in 1..Len(CharOrder) : CharOrder[i] = c

\* a < b for str
RECURSIVE StrLess(_, _)
StrLess(a, b) ==
    IF b = <<>> THEN FALSE
    ELSE IF a = <<>> THEN TRUE
    ELSE IF Head(a) = Head(b) THEN StrLess(Tail(a), Tail(b))
    ELSE Ord(Head(a)) < Ord(Head(b))

\* sorted(S) for a set of str
RECURSIVE Sorted(_)
Sorted(S) ==
    Let(S, LAMBDA T :
        IF T = {} THEN <<>>
        ELSE Let(CHOOSE x \in T : \A y \in T \ {x} : StrLess(x, y),
                 LAMBDA m : <<m>> \o Sorted(T \ {m})))

\* os.path.join of the components of a path below the project root
RelPath(path) == Join(path, <<"/">>)

FileName(f) == f.path[Len(f.path)]

\* os.path.exists(directory_path): a directory exists when a file lies below it
DirExists(files, directory) == \E f \in files : Len(f.path) > 1 /\ f.path[1] = directory

\* os.walk with the pruning of line 217 (and of line 75): the files reached
\* from directory; the names of the directories below it are tested, its own
\* name is not
Walk(files, directory, excluded_directories) ==
    {f \in files : /\ Len(f.path) > 1
                   /\ f.path[1] = directory
                   /\ \A k \in 2..(Len(f.path) - 1) : f.path[k] \notin excluded_directories}

\* lines 221-223
Selected(name, included_extensions, excluded_extensions) ==
    /\ \E ext \in included_extensions : EndsWith(name, ext)
    /\ ~(\E ext \in excluded_extensions : EndsWith(name, ext))

\* lines 219-232 for one directory: the entries read, in the order of the
\* walk (taken sorted; the order has no effect but on the printed summary)
ScanDirectory(files, directory, cfg) ==
    Let({f \in Walk(files, directory, cfg.excluded_directories) :
            /\ Selected(FileName(f), cfg.included_extensions, cfg.excluded_extensions)
            /\ f.readable},
        LAMBDA hit :
            Let(Sorted({RelPath(f.path) : f \in hit}),
                LAMBDA order :
                    [i \in 1..Len(order) |->
                        [file |-> order[i],
                         content |-> (CHOOSE f \in hit :
                                        RelPath(f.path) = order[i]).content]]))

RECURSIVE DictUpdate(_, _, _)
DictUpdate(d, entries, i) ==
    IF i > Len(entries) THEN d
    ELSE Let(DictSet(d, entries[i].file, entries[i].content),
             LAMBDA d2 : DictUpdate(d2, entries, i + 1))

\* lines 210-232: current_snapshots
RECURSIVE Scan(_, _, _, _)
Scan(files, cfg, i, current_snapshots) ==
    IF i > Len(cfg.included_directories) THEN current_snapshots
    ELSE Let(ScanDirectory(files, cfg.included_directories[i], cfg),
             LAMBDA entries :
                Let(DictUpdate(current_snapshots, entries, 1),
                    LAMBDA d : Scan(files, cfg, i + 1, d)))

---------------------------------------------------------------------------
(* The classification of create_snapshot, lines 234-250.                   *)

\* lines 237-244 for one entry of current_snapshots
ClassifyCurrent(c, entry, previous) ==
    IF ~HasKey(previous, entry.file)
    THEN [c EXCEPT !.new_files = Append(@, entry.file), !.changes_detected = TRUE]
    ELSE IF Get(previous, entry.file) # entry.content
    THEN [c EXCEPT !.modified_files = Append(@, entry.file), !.changes_detected = TRUE]
    ELSE c

\* ClassifyPrevious without line 250: a deletion does not set the flag
ClassifyPreviousSilent(c, entry, current) ==
    IF ~HasKey(current, entry.file)
    THEN [c EXCEPT !.deleted_files = Append(@, entry.file)]
    ELSE c

\* lines 248-250 for one entry of previous_snapshots
ClassifyPrevious(c, entry, current) ==
    IF ~HasKey(current, entry.file)
    THEN [c EXCEPT !.deleted_files = Append(@, entry.file), !.changes_detected = TRUE]
    ELSE c

RECURSIVE ClassifyLoop1(_, _, _, _)
ClassifyLoop1(c, current, previous, i) ==
    IF i > Len(current) THEN c
    ELSE Let(ClassifyCurrent(c, current[i], previous),
             LAMBDA c2 : ClassifyLoop1(c2, current, previous, i + 1))

RECURSIVE ClassifyLoop2(_, _, _, _)
ClassifyLoop2(c, current, previous, i) ==
    IF i > Len(previous) THEN c
    ELSE Let(ClassifyPrevious(c, previous[i], current),
             LAMBDA c2 : ClassifyLoop2(c2, current, previous, i + 1))

\* lines 201-205 and 234-250
Classify(previous, current) ==
    Let(ClassifyLoop1([new_files |-> <<>>, modified_files |-> <<>>,
                       deleted_files |-> <<>>, changes_detected |-> FALSE],
                      current, previous, 1),
        LAMBDA c : ClassifyLoop2(c, current, previous, 1))

---------------------------------------------------------------------------
(* difflib.unified_diff as called on lines 311-317: lists of lines, file   *)
(* labels, lineterm '', the default three lines of context.                *)

ContextLines == 3

Digits == <<"0", "1", "2", "3", "4", "5", "6", "7", "8", "9">>

\* '{}'.format(n), n >= 0
RECURSIVE ToStr(_)
ToStr(n) == IF n < 10 THEN <<Digits[n + 1]>> ELSE ToStr(n \div 10) \o <<Digits[(n % 10) + 1]>>

Max2(x, y) == IF x >= y THEN x ELSE y

Min2(x, y) == IF x <= y THEN x ELSE y

\* the length of the common run of a[i:ahi] and b[j:bhi] (offsets from 0)
RECURSIVE RunLength(_, _, _, _, _, _)
RunLength(a, b, i, j, ahi, bhi) ==
    IF i < ahi /\ j < bhi /\ a[i + 1] = b[j + 1]
    THEN 1 + RunLength(a, b, i + 1, j + 1, ahi, bhi)
    ELSE 0

\* SequenceMatcher.find_longest_match without junk: the longest block, of
\* those the one starting earliest in a, of those the one earliest in b
find_longest_match(a, b, alo, ahi, blo, bhi) ==
    Let({[i |-> p[1], j |-> p[2], k |-> RunLength(a, b, p[1], p[2], ahi, bhi)] :
            p \in (alo..(ahi - 1)) \X (blo..(bhi - 1))},
        LAMBDA found :
            IF \A m \in found : m.k = 0 THEN [i |-> alo, j |-> blo, k |-> 0]
            ELSE CHOOSE m \in found :
                    \A q \in found :
                        \/ m.k > q.k
                        \/ /\ m.k = q.k
                           /\ \/ m.i < q.i
                              \/ m.i = q.i /\ m.j <= q.j)

\* the recursion of get_matching_blocks, already in order
RECURSIVE MatchingBlocksIn(_, _, _, _, _, _)
MatchingBlocksIn(a, b, alo, ahi, blo, bhi) ==
    Let([m |-> find_longest_match(a, b, alo, ahi, blo, bhi),
         alo |-> alo, ahi |-> ahi, blo |-> blo, bhi |-> bhi],
        LAMBDA w :
            IF w.m.k = 0 THEN <<>>
            ELSE (IF w.alo < w.m.i /\ w.blo < w.m.j
                  THEN MatchingBlocksIn(a, b, w.alo, w.m.i, w.blo, w.m.j) ELSE <<>>)
                 \o <<w.m>>
                 \o (IF w.m.i + w.m.k < w.ahi /\ w.m.j + w.m.k < w.bhi
                     THEN MatchingBlocksIn(a, b, w.m.i + w.m.k, w.ahi,
                                           w.m.j + w.m.k, w.bhi)
                     ELSE <<>>))

\* adjacent blocks are merged
RECURSIVE CollapseAdjacent(_)
CollapseAdjacent(blocks) ==
    Let(blocks, LAMBDA bs :
        IF Len(bs) < 2 THEN bs
        ELSE IF bs[1].i + bs[1].k = bs[2].i /\ bs[1].j + bs[1].k = bs[2].j
        THEN CollapseAdjacent(<<[i |-> bs[1].i, j |-> bs[1].j, k |-> bs[1].k + bs[2].k]>>
                              \o SubSeq(bs, 3, Len(bs)))
        ELSE <<bs[1]>> \o CollapseAdjacent(Tail(bs)))

get_matching_blocks(a, b) ==
    Append(CollapseAdjacent(MatchingBlocksIn(a, b, 0, Len(a), 0, Len(b))),
           [i |-> Len(a), j |-> Len(b), k |-> 0])

Opcode(tag, i1, i2, j1, j2) == [tag |-> tag, i1 |-> i1, i2 |-> i2, j1 |-> j1, j2 |-> j2]

RECURSIVE OpcodesFrom(_, _, _, _)
OpcodesFrom(blocks, n, i, j) ==
    IF n > Len(blocks) THEN <<>>
    ELSE Let([m |-> blocks[n], i |-> i, j |-> j],
             LAMBDA w :
                Let(IF w.i < w.m.i /\ w.j < w.m.j THEN "replace"
                    ELSE IF w.i < w.m.i THEN "delete"
                    ELSE IF w.j < w.m.j THEN "insert"
                    ELSE "",
                    LAMBDA tag :
                        (IF tag # "" THEN <<Opcode(tag, w.i, w.m.i, w.j, w.m.j)>>
                         ELSE <<>>)
                        \o (IF w.m.k > 0
                            THEN <<Opcode("equal", w.m.i, w.m.i + w.m.k,
                                          w.m.j, w.m.j + w.m.k)>>
                            ELSE <<>>)
                        \o OpcodesFrom(blocks, n + 1, w.m.i + w.m.k, w.m.j + w.m.k)))

get_opcodes(a, b) ==
    Let(get_matching_blocks(a, b), LAMBDA blocks : OpcodesFrom(blocks, 1, 0, 0))

\* the loop of get_grouped_opcodes: the groups closed so far and the open one
RECURSIVE GroupLoop(_, _, _, _)
GroupLoop(codes, n, done, group) ==
    IF n > Len(codes) THEN
        IF group # <<>> /\ ~(Len(group) = 1 /\ group[1].tag = "equal")
        THEN Append(done, group) ELSE done
    ELSE Let([c |-> codes[n], done |-> done, group |-> group],
             LAMBDA w :
                IF w.c.tag = "equal" /\ w.c.i2 - w.c.i1 > 2 * ContextLines
                THEN GroupLoop(codes, n + 1,
                         Append(w.done,
                                Append(w.group,
                                       Opcode(w.c.tag, w.c.i1,
                                              Min2(w.c.i2, w.c.i1 + ContextLines),
                                              w.c.j1,
                                              Min2(w.c.j2, w.c.j1 + ContextLines)))),
                         <<Opcode(w.c.tag, Max2(w.c.i1, w.c.i2 - ContextLines), w.c.i2,
                                  Max2(w.c.j1, w.c.j2 - ContextLines), w.c.j2)>>)
                ELSE GroupLoop(codes, n + 1, w.done, Append(w.group, w.c)))

\* the first and the last opcode keep at most the context
TrimFirst(codes) ==
    Let(codes[1],
        LAMBDA f : IF f.tag = "equal"
                   THEN <<Opcode(f.tag, Max2(f.i1, f.i2 - ContextLines), f.i2,
                                 Max2(f.j1, f.j2 - ContextLines), f.j2)>> \o Tail(codes)
                   ELSE codes)

TrimLast(codes) ==
    Let(codes[Len(codes)],
        LAMBDA l : IF l.tag = "equal"
                   THEN SubSeq(codes, 1, Len(codes) - 1)
                        \o <<Opcode(l.tag, l.i1, Min2(l.i2, l.i1 + ContextLines),
                                    l.j1, Min2(l.j2, l.j1 + ContextLines))>>
                   ELSE codes)

get_grouped_opcodes(a, b) ==
    Let(get_opcodes(a, b),
        LAMBDA codes :
            Let(TrimFirst(IF codes = <<>> THEN <<Opcode("equal", 0, 1, 0, 1)>>
                          ELSE codes),
                LAMBDA codes1 :
                    Let(TrimLast(codes1),
                        LAMBDA codes2 : GroupLoop(codes2, 1, <<>>, <<>>))))

_format_range_unified(start, stop) ==
    LET length == stop - start
    IN  IF length = 1 THEN ToStr(start + 1)
        ELSE ToStr(IF length = 0 THEN start ELSE start + 1) \o <<",">> \o ToStr(length)

Prefixed(c, lines, lo, hi) == [n \in 1..(hi - lo) |-> <<c>> \o lines[lo + n]]

\* the lines one opcode yields
OpcodeLines(a, b, c) ==
    IF c.tag = "equal" THEN Prefixed(" ", a, c.i1, c.i2)
    ELSE (IF c.tag \in {"replace", "delete"} THEN Prefixed("-", a, c.i1, c.i2) ELSE <<>>)
         \o (IF c.tag \in {"replace", "insert"} THEN Prefixed("+", b, c.j1, c.j2) ELSE <<>>)

RECURSIVE GroupLines(_, _, _, _)
GroupLines(a, b, group, n) ==
    IF n > Len(group) THEN <<>>
    ELSE OpcodeLines(a, b, group[n]) \o GroupLines(a, b, group, n + 1)

\* the header and the lines of one hunk
HunkLines(a, b, group) ==
    << <<"@", "@", " ", "-">> \o _format_range_unified(group[1].i1, group[Len(group)].i2)
      \o <<" ", "+">> \o _format_range_unified(group[1].j1, group[Len(group)].j2)
      \o <<" ", "@", "@">> >>
    \o GroupLines(a, b, group, 1)

RECURSIVE AllHunkLines(_, _, _, _)
AllHunkLines(a, b, groups, n) ==
    IF n > Len(groups) THEN <<>>
    ELSE HunkLines(a, b, groups[n]) \o AllHunkLines(a, b, groups, n + 1)

\* list(difflib.unified_diff(a, b, fromfile, tofile, lineterm=''))
unified_diff(a, b, fromfile, tofile) ==
    Let([a |-> a, b |-> b],
        LAMBDA w :
            Let(get_grouped_opcodes(w.a, w.b),
                LAMBDA groups :
                    IF groups = <<>> THEN <<>>
                    ELSE << <<"-", "-", "-", " ">> \o fromfile,
                            <<"+", "+", "+", " ">> \o tofile >>
                         \o AllHunkLines(w.a, w.b, groups, 1)))

---------------------------------------------------------------------------
(* get_project_structure, lines 46-93.                                     *)

Indent == <<" ", " ">>

\* every directory that holds a file, as the components of its path
AllDirs(files) ==
    UNION {{SubSeq(f.path, 1, k) : k \in 1..(Len(f.path) - 1)} : f \in files}

\* the directories os.walk visits from start, with the pruning of line 75
VisitedDirs(files, start, excluded_directories) ==
    {d \in AllDirs(files) :
        d[1] = start /\ \A k \in 2..Len(d) : d[k] \notin excluded_directories}

\* lines 80-91 for one directory
DirLines(files, dir, excluded_extensions) ==
    Let(Sorted({FileName(f) : f \in {g \in files :
                    /\ Len(g.path) = Len(dir) + 1
                    /\ SubSeq(g.path, 1, Len(dir)) = dir
                    /\ ~(\E ext \in excluded_extensions :
                            EndsWith(FileName(g), ext))}}),
        LAMBDA names :
            << Repeat(Indent, Len(dir) - 1) \o dir[Len(dir)] \o <<"/">> >>
            \o [i \in 1..Len(names) |-> Repeat(Indent, Len(dir)) \o names[i]])

RECURSIVE TreeLines(_, _, _, _)
TreeLines(files, dirs, i, excluded_extensions) ==
    IF i > Len(dirs) THEN <<>>
    ELSE Let(CHOOSE d \in AllDirs(files) : RelPath(d) = dirs[i],
             LAMBDA dir : DirLines(files, dir, excluded_extensions))
         \o TreeLines(files, dirs, i + 1, excluded_extensions)

\* the walk is taken in sorted order of the directories
get_project_structure(files, start, excluded_directories, excluded_extensions) ==
    Let(Sorted({RelPath(d) : d \in VisitedDirs(files, start, excluded_directories)}),
        LAMBDA dirs :
            Let(TreeLines(files, dirs, 1, excluded_extensions),
                LAMBDA lines : Join(lines, NL)))

---------------------------------------------------------------------------
(* The writer of create_snapshot, lines 272-339: the arguments of the      *)
(* f.write calls, in order.                                                *)

TwoDigits(n) == <<Digits[(n \div 10) + 1], Digits[(n % 10) + 1]>>

\* datetime.now().strftime('%Y-%m-%d %H:%M:%S'), t seconds into the model's day
Strftime(t) ==
    <<"2", "0", "2", "6", "-", "0", "1", "-", "0", "1", " ", "0", "0", ":">>
    \o TwoDigits(t \div 60) \o <<":">> \o TwoDigits(t % 60)

RECURSIVE StructureChunks(_, _, _)
StructureChunks(files, cfg, i) ==
    IF i > Len(cfg.included_directories) THEN <<>>
    ELSE (IF DirExists(files, cfg.included_directories[i])
          THEN <<get_project_structure(files, cfg.included_directories[i],
                                       cfg.excluded_directories,
                                       cfg.excluded_extensions) \o NL>>
          ELSE <<>>)
         \o StructureChunks(files, cfg, i + 1)

\* lines 276-293
HeaderChunks(files, cfg, t) ==
    <<PROJECT_STRUCTURE \o NL, SEPARATOR_LINE>>
    \o StructureChunks(files, cfg, 1)
    \o <<SEPARATOR_LINE,
         END_PROJECT_STRUCTURE \o NL \o NL,
         SNAPSHOT_CREATED_AT \o <<" ">> \o Strftime(t) \o NL \o NL>>

\* lines 297-299 and 328-330
BlockHeader(file_path) ==
    <<SEPARATOR_LINE, FILE_PREFIX \o file_path \o NL, SEPARATOR_LINE>>

FinalChunks(current_content) ==
    <<NL \o FINAL_CONTENT \o NL, current_content \o NL>>

InList(x, list) == \E i \in 1..Len(list) : list[i] = x

\* lines 311-318: the diff body of a modified file
DiffChunk(file_path, prev_content, current_content) ==
    Let(unified_diff(SplitLines(prev_content), SplitLines(current_content),
                     file_path, file_path),
        LAMBDA diff : Join(diff, NL) \o NL)

\* TrackedBlock without the test of line 301: the branch is chosen by the
\* comparison of line 309 alone, so a new file gets a diff against ''
TrackedBlockByContent(file_path, current_content, previous, new_files) ==
    Let(IF HasKey(previous, file_path) THEN Get(previous, file_path) ELSE <<>>,
        LAMBDA prev_content :
            IF prev_content # current_content
            THEN [file |-> file_path, status |-> "MODIFIED",
                  chunks |-> BlockHeader(file_path)
                             \o <<DiffChunk(file_path, prev_content, current_content)>>
                             \o FinalChunks(current_content)]
            ELSE [file |-> file_path, status |-> "UNCHANGED",
                  chunks |-> BlockHeader(file_path) \o FinalChunks(current_content)])

\* lines 297-324: the block of a tracked file; status names the branch taken
TrackedBlock(file_path, current_content, previous, new_files) ==
    IF InList(file_path, new_files)
    THEN [file |-> file_path, status |-> "NEW",
          chunks |-> BlockHeader(file_path)
                     \o <<STATUS_NEW \o NL, current_content \o NL>>
                     \o FinalChunks(current_content)]
    ELSE Let(IF HasKey(previous, file_path) THEN Get(previous, file_path) ELSE <<>>,
             LAMBDA prev_content :
                IF prev_content # current_content
                THEN [file |-> file_path, status |-> "MODIFIED",
                      chunks |-> BlockHeader(file_path)
                                 \o <<DiffChunk(file_path, prev_content, current_content)>>
                                 \o FinalChunks(current_content)]
                ELSE [file |-> file_path, status |-> "UNCHANGED",
                      chunks |-> BlockHeader(file_path) \o FinalChunks(current_content)])

\* lines 328-331
DeletedBlock(file_path) ==
    [file |-> file_path, status |-> "DELETED",
     chunks |-> BlockHeader(file_path) \o <<STATUS_DELETED \o NL>>]

\* lines 296-331: the tracked files in sorted order, then the deleted ones
WriterBlocks(current, previous, c) ==
    Let(Sorted(Keys(current)),
        LAMBDA order :
            [i \in 1..Len(order) |->
                Let(Get(current, order[i]),
                    LAMBDA current_content :
                        TrackedBlock(order[i], current_content, previous, c.new_files))]
            \o [i \in 1..Len(c.deleted_files) |-> DeletedBlock(c.deleted_files[i])])

RECURSIVE BlockChunks(_, _)
BlockChunks(blocks, i) ==
    IF i > Len(blocks) THEN <<>> ELSE blocks[i].chunks \o BlockChunks(blocks, i + 1)

---------------------------------------------------------------------------
(* The inputs: the lists main() passes (lines 357-402), project trees and  *)
(* snapshot file texts.                                                    *)

MainConfig ==
    [included_directories |->
        <<<<"s", "r", "c">>,
          <<"a", "p", "p">>,
          <<"a", "s", "s", "e", "t", "s">>,
          <<"c", "o", "m", "p", "o", "n", "e", "n", "t", "s">>,
          <<"s", "c", "r", "e", "e", "n", "s">>,
          <<"n", "a", "v", "i", "g", "a", "t", "i", "o", "n">>,
          <<"h", "o", "o", "k", "s">>,
          <<"u", "t", "i", "l", "s">>,
          <<"s", "e", "r", "v", "i", "c", "e", "s">>,
          <<"s", "t", "o", "r", "e">>>>,
     included_extensions |->
        {<<".", "j", "s">>,
         <<".", "j", "s", "x">>,
         <<".", "t", "s">>,
         <<".", "t", "s", "x">>,
         <<".", "j", "s", "o", "n">>,
         <<".", "n", "a", "t", "i", "v", "e", ".", "j", "s">>,
         <<".", "s", "t", "y", "l", "e", ".", "j", "s">>,
         <<".", "c", "o", "n", "f", "i", "g", ".", "j", "s">>},
     excluded_directories |->
        {<<"n", "o", "d", "e", "_", "m", "o", "d", "u", "l", "e", "s">>,
         <<".", "e", "x", "p", "o">>,
         <<".", "e", "x", "p", "o", "-", "s", "h", "a", "r", "e", "d">>,
         <<"b", "u", "i", "l", "d">>,
         <<"d", "i", "s", "t">>,
         <<".", "g", "i", "t">>,
         <<"a", "n", "d", "r", "o", "i", "d">>,
         <<"i", "o", "s">>,
         <<"w", "e", "b", "-", "b", "u", "i", "l", "d">>,
         <<"c", "o", "v", "e", "r", "a", "g", "e">>},
     excluded_extensions |->
        {<<".", "l", "o", "g">>,
         <<".", "l", "o", "c", "k">>,
         <<".", "e", "x", "p", "o">>,
         <<".", "g", "r", "a", "d", "l", "e">>,
         <<".", "p", "b", "x", "p", "r", "o", "j">>,
         <<".", "x", "c", "w", "o", "r", "k", "s", "p", "a", "c", "e">>,
         <<".", "i", "d", "e", "a">>,
         <<".", "v", "s", "c", "o", "d", "e">>,
         <<".", "D", "S", "_", "S", "t", "o", "r", "e">>}]

File(path, content) == [path |-> path, content |-> content, readable |-> TRUE]

SrcA == <<<<"s", "r", "c">>, <<"a", ".", "j", "s">>>>

SrcB == <<<<"s", "r", "c">>, <<"b", ".", "j", "s">>>>

\* contents of src/a.js: one line, another line, a final line break, a blank
\* line inside
ContentsA ==
    {<<"x">>, <<"y">>, <<"x", "\n">>, <<"x", "\n", "\n", "y">>}

\* the project trees of the life cycle: src/a.js and src/b.js, each present
\* or not
ProjectTrees ==
    {A \cup B : A \in {{}} \cup {{File(SrcA, c)} : c \in ContentsA},
                B \in {{}, {File(SrcB, <<"y">>)}}}

NoFile == [exists |-> FALSE, text |-> <<>>]

\* what a snapshot file may begin with: nothing, an open block, a block in its
\* final content, a deleted block, a header that is never closed
ParseHeads ==
    {<<>>,
     FILE_PREFIX \o <<"p">> \o NL,
     FILE_PREFIX \o <<"p">> \o NL \o FINAL_CONTENT \o NL,
     SEPARATOR_LINE \o FILE_PREFIX \o <<"p">> \o NL \o SEPARATOR_LINE
        \o STATUS_DELETED \o NL,
     PROJECT_STRUCTURE \o NL \o SEPARATOR_LINE}

\* the lines that follow
LinePool ==
    <<FILE_PREFIX \o <<"p">>,
      FILE_PREFIX \o <<"q">>,
      FINAL_CONTENT,
      <<" ">> \o FINAL_CONTENT \o <<" ">>,
      <<"x">>,
      <<>>,
      <<" ">>,
      STATUS_NEW \o <<"S">>,
      STATUS_DELETED,
      SNAPSHOT_CREATED_AT \o <<" ", "t">>,
      SEPARATOR,
      END_PROJECT_STRUCTURE,
      <<" ", "y">>>>

LinesOf(ix) == Concat([i \in 1..Len(ix) |-> LinePool[ix[i]] \o NL])

SnapshotTexts ==
    {h \o LinesOf(ix) : h \in ParseHeads,
                        ix \in UNION {[1..n -> 1..Len(LinePool)] : n \in 0..MaxLines}}

---------------------------------------------------------------------------
(* The state machine: a process is started (the constructor loads the      *)
(* snapshot file), calls create_snapshot as main() does, and ends; between *)
(* two processes the project tree may change.                              *)

NoCall ==
    [called |-> FALSE, ret |-> FALSE, io |-> "none", written |-> 0,
     changes_detected |-> FALSE, new_files |-> <<>>, modified_files |-> <<>>,
     deleted_files |-> <<>>, current_snapshots |-> <<>>, previous |-> <<>>,
     blocks |-> <<>>, chunks |-> <<>>, file_before |-> NoFile]

NoShadow == [ran |-> FALSE, load |-> "none", prev |-> NoCall, prev_files |-> {}]

\* __init__, lines 116-121
Construct ==
    /\ pc = "start"
    /\ runs < MaxRuns
    /\ \E read_ok \in BOOLEAN :
        /\ ~read_ok => snapshot_file.exists /\ faults < MaxFaults
        /\ \E r \in {load_previous_snapshots(snapshot_file, <<>>, read_ok)} :
              /\ previous_snapshots' = r.previous_snapshots
              /\ raised' = r.raised
        /\ faults' = IF read_ok THEN faults ELSE faults + 1
        /\ shadow' = [shadow EXCEPT !.load = IF ~snapshot_file.exists THEN "absent"
                                             ELSE IF read_ok THEN "read"
                                             ELSE "read_fails"]
    /\ pc' = "ready"
    /\ runs' = runs + 1
    /\ UNCHANGED <<project_files, config, snapshot_file, now, last>>

\* where a failing write may leave the file: nothing written, the header
\* begun, the last block cut off before its final content
CutPoints(chunks) ==
    Let({k \in 1..Len(chunks) : chunks[k] = NL \o FINAL_CONTENT \o NL},
        LAMBDA marks : {0, 1} \cup {k - 1 : k \in {m \in marks : \A n \in marks : n <= m}})

\* the outcomes of lines 273-339: written in full; open() raises; a write
\* raises after some of the chunks
IoOutcomes(chunks, may_fail) ==
    {[io |-> "ok", written |-> Len(chunks)]}
    \cup (IF may_fail
          THEN {[io |-> "open_fails", written |-> 0]}
               \cup {[io |-> "write_fails", written |-> k] : k \in CutPoints(chunks)}
          ELSE {})

\* the file after lines 273-339
FileAfter(file, chunks, o) ==
    IF o.io = "open_fails" THEN file
    ELSE [exists |-> TRUE, text |-> Concat(SubSeq(chunks, 1, o.written))]

\* create_snapshot without the early return of lines 268-270
EarlyReturnNever(c) == FALSE

\* line 268
EarlyReturn(c) == ~c.changes_detected

\* the locals of create_snapshot when it reaches line 268
Locals(current, c) ==
    [NoCall EXCEPT !.called = TRUE,
                   !.changes_detected = c.changes_detected,
                   !.new_files = c.new_files,
                   !.modified_files = c.modified_files,
                   !.deleted_files = c.deleted_files,
                   !.current_snapshots = current,
                   !.previous = previous_snapshots,
                   !.file_before = snapshot_file]

\* create_snapshot, lines 196-339
CreateSnapshot ==
    /\ pc = "ready"
    /\ \E current \in {Scan(project_files, config, 1, <<>>)} :
       \E c \in {Classify(previous_snapshots, current)} :
          IF EarlyReturn(c)
          THEN /\ last' = Locals(current, c)
               /\ UNCHANGED <<snapshot_file, faults>>
          ELSE \E blocks \in {WriterBlocks(current, previous_snapshots, c)} :
               \E chunks \in {HeaderChunks(project_files, config, now)
                                \o BlockChunks(blocks, 1)} :
               \E o \in IoOutcomes(chunks, faults < MaxFaults) :
                    /\ snapshot_file' = FileAfter(snapshot_file, chunks, o)
                    /\ faults' = IF o.io = "ok" THEN faults ELSE faults + 1
                    /\ last' = [Locals(current, c) EXCEPT !.ret = (o.io = "ok"),
                                                          !.io = o.io,
                                                          !.written = o.written,
                                                          !.blocks = blocks,
                                                          !.chunks = chunks]
    /\ pc' = "called"
    /\ UNCHANGED <<project_files, config, now, previous_snapshots, raised, runs, shadow>>

\* the process ends; the next one starts at least a second later
Exit ==
    /\ pc = "called"
    /\ pc' = "start"
    /\ now' = now + 1
    /\ previous_snapshots' = <<>>
    /\ last' = NoCall
    /\ shadow' = [ran |-> TRUE, load |-> "none", prev |-> last,
                  prev_files |-> project_files]
    /\ UNCHANGED <<project_files, config, snapshot_file, raised, runs, faults>>

\* between two processes the tracked files are edited, created or removed
EditFiles ==
    /\ pc = "start"
    /\ shadow.ran
    /\ runs < MaxRuns
    /\ project_files' \in ProjectTrees \ {project_files}
    /\ UNCHANGED <<config, snapshot_file, now, pc, previous_snapshots, raised,
                   runs, faults, last, shadow>>

Init ==
    /\ project_files \in ProjectTrees
    /\ config = MainConfig
    /\ snapshot_file = NoFile
    /\ now = 0
    /\ pc = "start"
    /\ previous_snapshots = <<>>
    /\ raised = FALSE
    /\ runs = 0
    /\ faults = 0
    /\ last = NoCall
    /\ shadow = NoShadow

Next == Construct \/ CreateSnapshot \/ Exit \/ EditFiles

Spec == Init /\ [][Next]_vars

\* the parser on the texts of SnapshotTexts
InitParse ==
    /\ project_files = {}
    /\ config = MainConfig
    /\ snapshot_file \in {NoFile} \cup {[exists |-> TRUE, text |-> t] : t \in SnapshotTexts}
    /\ now = 0
    /\ pc = "start"
    /\ previous_snapshots = <<>>
    /\ raised = FALSE
    /\ runs = 0
    /\ faults = 0
    /\ last = NoCall
    /\ shadow = NoShadow

NextParse == Construct

SpecParse == InitParse /\ [][NextParse]_vars

---------------------------------------------------------------------------
(* The scan under other lists than main()'s: create_snapshot is called     *)
(* with any included and excluded directories and extensions.              *)

Src == <<"s", "r", "c">>

App == <<"a", "p", "p">>

Build == <<"b", "u", "i", "l", "d">>

Lib == <<"l", "i", "b">>

ExtJs == <<".", "j", "s">>

ExtTs == <<".", "t", "s">>

ExtConfigJs == <<".", "c", "o", "n", "f", "i", "g", ".", "j", "s">>

ScanConfigs ==
    {[included_directories |-> ds, included_extensions |-> ie,
      excluded_directories |-> ed, excluded_extensions |-> ee] :
        ds \in {<<Src>>, <<Src, App>>},
        ie \in {{ExtJs}, {ExtJs, ExtTs}},
        ed \in {{}, {Build}, {Src}},
        ee \in {{}, {ExtConfigJs}}}

\* files at depth one to three below the root; one cannot be read (line 230)
ScanFiles ==
    {File(SrcA, <<"x">>),
     File(<<Src, Build, <<"b", ".", "j", "s">>>>, <<"x">>),
     File(<<Src, Lib, Build, <<"c", ".", "j", "s">>>>, <<"x">>),
     File(<<Src, <<"d", ".", "c", "o", "n", "f", "i", "g", ".", "j", "s">>>>, <<"x">>),
     File(<<App, Build, <<"e", ".", "t", "s">>>>, <<"x">>),
     [path |-> <<Src, <<"u", ".", "j", "s">>>>, content |-> <<"x">>, readable |-> FALSE]}

ScanTrees == {T \in SUBSET ScanFiles : Cardinality(T) \in 1..2}

InitScan ==
    /\ project_files \in ScanTrees
    /\ config \in ScanConfigs
    /\ snapshot_file = NoFile
    /\ now = 0
    /\ pc = "start"
    /\ previous_snapshots = <<>>
    /\ raised = FALSE
    /\ runs = 0
    /\ faults = 0
    /\ last = NoCall
    /\ shadow = NoShadow

NextScan == Construct \/ CreateSnapshot

SpecScan == InitScan /\ [][NextScan]_vars

---------------------------------------------------------------------------
(* Properties of the life cycle (Spec).                                    *)

PathSet(list) == {list[i] : i \in 1..Len(list)}

\* the run before this one wrote the snapshot file in full, or had nothing
\* to write
PreviousRunCompleted == shadow.prev.called /\ shadow.prev.io \in {"ok", "none"}

\* C1: round trip. A state S with non-empty contents, written by
\* create_snapshot from an empty previous state and parsed back by
\* load_previous_snapshots, is S again: the same paths, each with the
\* identical content, blank lines included.
RoundTrip ==
    (/\ pc = "ready"
     /\ shadow.load = "read"
     /\ shadow.prev.called
     /\ shadow.prev.io = "ok"
     /\ shadow.prev.previous = <<>>
     /\ \A i \in 1..Len(shadow.prev.current_snapshots) :
            shadow.prev.current_snapshots[i].content # <<>>)
    => AsMap(previous_snapshots) = AsMap(shadow.prev.current_snapshots)

\* a round trip that does reconstruct the state, blank line or not
RoundTripReached ==
    /\ pc = "ready"
    /\ shadow.load = "read"
    /\ shadow.prev.io = "ok"
    /\ shadow.prev.previous = <<>>
    /\ Len(previous_snapshots) = 2
    /\ AsMap(previous_snapshots) = AsMap(shadow.prev.current_snapshots)

\* C2: idempotence. With the files unchanged since the run before, which
\* completed, a run reports no change (create_snapshot returns False) and
\* leaves the snapshot file byte for byte as it was.
Idempotence ==
    (/\ pc = "called"
     /\ PreviousRunCompleted
     /\ shadow.load \in {"read", "absent"}
     /\ shadow.prev_files = project_files)
    => /\ ~last.ret
       /\ ~last.changes_detected
       /\ snapshot_file = last.file_before

\* a second run over unchanged files that reports no change
SecondRunSilent ==
    /\ pc = "called"
    /\ PreviousRunCompleted
    /\ shadow.load = "read"
    /\ shadow.prev_files = project_files
    /\ ~last.changes_detected
    /\ snapshot_file = last.file_before

\* C3: classification. new = keys(current) - keys(previous), deleted =
\* keys(previous) - keys(current), modified = the paths in both with
\* different contents; the three are pairwise disjoint, with the unchanged
\* paths they cover keys(previous) and keys(current), and changes_detected
\* holds exactly when one of the three is not empty.
ClassificationCorrect ==
    last.called =>
        LET P == Keys(last.previous)
            C == Keys(last.current_snapshots)
            new == PathSet(last.new_files)
            modified == PathSet(last.modified_files)
            deleted == PathSet(last.deleted_files)
            unchanged == {k \in P \cap C :
                            Get(last.previous, k) = Get(last.current_snapshots, k)}
        IN  /\ new = C \ P
            /\ deleted = P \ C
            /\ modified = {k \in P \cap C :
                              Get(last.previous, k) # Get(last.current_snapshots, k)}
            /\ new \cap modified = {}
            /\ new \cap deleted = {}
            /\ modified \cap deleted = {}
            /\ new \cup modified \cup deleted \cup unchanged = P \cup C
            /\ last.changes_detected <=> (new \cup modified \cup deleted # {})

\* a run that finds a deleted path and nothing else
OnlyDeletionClassified ==
    /\ last.called
    /\ last.deleted_files # <<>>
    /\ last.new_files = <<>>
    /\ last.modified_files = <<>>
    /\ last.current_snapshots # <<>>

\* C4: no-op write. When no path is new, modified or deleted,
\* create_snapshot returns False and the snapshot file is not opened: it
\* stays as it was, absent if it was absent. The file is opened for writing
\* only in a run that detected changes.
NoOpWrite ==
    last.called =>
        /\ (last.new_files = <<>> /\ last.modified_files = <<>>
                /\ last.deleted_files = <<>>)
            => (~last.ret /\ last.io = "none" /\ snapshot_file = last.file_before)
        /\ (last.io # "none" \/ snapshot_file # last.file_before)
            => last.changes_detected

\* a run over an existing snapshot file that finds nothing changed
NoChangeOverExistingFile ==
    /\ last.called
    /\ ~last.changes_detected
    /\ last.file_before.exists
    /\ last.current_snapshots # <<>>

\* the number a decimal numeral writes
RECURSIVE ParseNat(_)
ParseNat(t) ==
    IF t = <<>> THEN 0
    ELSE 10 * ParseNat(SubSeq(t, 1, Len(t) - 1))
         + (CHOOSE d \in 0..9 : Digits[d + 1] = t[Len(t)])

\* the first line of the old text a hunk "@@ -s,l +s,l @@" covers; a hunk
\* of length 0 stands after line s
HunkStart(header) ==
    LET range == Split(SplitOnce(SubSeq(header, 5, Len(header)), <<" ">>)[1], <<",">>)
        start == ParseNat(range[1])
    IN  IF Len(range) = 2 /\ ParseNat(range[2]) = 0 THEN start + 1 ELSE start

\* a unified diff applied to the lines a: d[i..] with a[pos..] still to copy
RECURSIVE ApplyLines(_, _, _, _, _)
ApplyLines(a, d, i, pos, out) ==
    IF i > Len(d) THEN out \o SubSeq(a, pos, Len(a))
    ELSE IF d[i] = <<>> \/ (i <= 2 /\ (StartsWith(d[i], <<"-", "-", "-">>)
                                        \/ StartsWith(d[i], <<"+", "+", "+">>)))
    THEN ApplyLines(a, d, i + 1, pos, out)
    ELSE IF StartsWith(d[i], <<"@", "@">>)
    THEN ApplyLines(a, d, i + 1, HunkStart(d[i]),
                    out \o SubSeq(a, pos, HunkStart(d[i]) - 1))
    ELSE IF d[i][1] = " "
    THEN ApplyLines(a, d, i + 1, pos + 1, Append(out, a[pos]))
    ELSE IF d[i][1] = "-"
    THEN ApplyLines(a, d, i + 1, pos + 1, out)
    ELSE ApplyLines(a, d, i + 1, pos, Append(out, Tail(d[i])))

\* the text the written diff makes of the previous text: its lines carry no
\* line break of their own, so the text is the patched lines joined
ApplyDiff(prev_content, diff_chunk) ==
    Join(ApplyLines(SplitLines(prev_content), SplitLines(diff_chunk), 1, 1, <<>>), NL)

\* the blocks written for the paths of modified_files
ModifiedBlocks ==
    {i \in 1..Len(last.blocks) : last.blocks[i].file \in PathSet(last.modified_files)}

\* C6: diff fidelity. For every modified path, the unified diff written for
\* it, applied to previous[path], gives current[path] exactly, the presence
\* or absence of a final line break included.
DiffFidelity ==
    (last.called /\ last.io = "ok") =>
        \A i \in ModifiedBlocks :
            ApplyDiff(Get(last.previous, last.blocks[i].file), last.blocks[i].chunks[4])
                = Get(last.current_snapshots, last.blocks[i].file)

\* a written diff that does give the current content
FaithfulDiffWritten ==
    /\ last.called
    /\ last.io = "ok"
    /\ \E i \in ModifiedBlocks :
          /\ Len(last.blocks[i].chunks[4]) > 1
          /\ ApplyDiff(Get(last.previous, last.blocks[i].file), last.blocks[i].chunks[4])
                = Get(last.current_snapshots, last.blocks[i].file)

\* the three lines that open a block
ExpectedHeader(file_path) ==
    <<SEPARATOR_LINE, FILE_PREFIX \o file_path \o NL, SEPARATOR_LINE>>

\* the section that ends the block of a tracked path
ExpectedFinal(content) == <<NL \o FINAL_CONTENT \o NL, content \o NL>>

BlocksOf(file_path) == {i \in 1..Len(last.blocks) : last.blocks[i].file = file_path}

HasFinalSection(chunks) == \E k \in 1..Len(chunks) : chunks[k] = NL \o FINAL_CONTENT \o NL

---------------------------------------------------------------------------
(* Properties of the scan (SpecScan).                                      *)

InExcludedDirectory(f) ==
    \E k \in 1..(Len(f.path) - 1) : f.path[k] \in config.excluded_directories

MatchesBothExtensions(f) ==
    /\ \E ext \in config.included_extensions : EndsWith(FileName(f), ext)
    /\ \E ext \in config.excluded_extensions : EndsWith(FileName(f), ext)

\* C8: filter correctness. Whatever the four lists, a file below a
\* directory whose name is in excluded_directories, at any depth below the
\* project root, is no key of the current state, and neither is a file
\* whose name ends in both an included and an excluded extension.
FilterCorrect ==
    last.called =>
        \A f \in project_files :
            (InExcludedDirectory(f) \/ MatchesBothExtensions(f))
                => ~HasKey(last.current_snapshots, RelPath(f.path))

\* a scan that leaves out a file of an excluded directory two levels down
\* and keeps another file
NestedExcludedDirectoryPruned ==
    /\ last.called
    /\ last.current_snapshots # <<>>
    /\ \E f \in project_files :
          /\ Len(f.path) = 4
          /\ InExcludedDirectory(f)
          /\ ~HasKey(last.current_snapshots, RelPath(f.path))

---------------------------------------------------------------------------
(* Properties of the parser (SpecParse).                                   *)

\* the parser has read the snapshot file
Parsed == pc = "ready" /\ shadow.load = "read"

\* a header marker with no closing marker (the IndexError of line 137)
UnclosedHeader(text) ==
    Contains(text, PROJECT_STRUCTURE) /\ ~Contains(text, END_PROJECT_STRUCTURE)

\* the text ends in a block cut off before its content: its last line is
\* the File: line of the block
CutOffBlock(text) ==
    LET lines == Split(Strip(text), NL)
    IN  StartsWith(lines[Len(lines)], FILE_PREFIX)

WithoutLastLine(text) ==
    LET lines == Split(Strip(text), NL)
    IN  [exists |-> TRUE,
         text |-> Concat([i \in 1..(Len(lines) - 1) |-> lines[i] \o NL])]

\* C5, as stated: the parser never raises, and on any failure (the file
\* absent, unreadable, or malformed: a header marker without its closing
\* marker, a block cut off before its content) the previous state is the
\* empty map.
ParserFailureGivesEmptyState ==
    pc = "ready" =>
        /\ ~raised
        /\ (\/ shadow.load \in {"absent", "read_fails"}
            \/ shadow.load = "read" /\ UnclosedHeader(snapshot_file.text)
            \/ shadow.load = "read" /\ CutOffBlock(snapshot_file.text))
           => previous_snapshots = <<>>

\* C5, amended: the parser never raises; the previous state is the empty
\* map when the file is absent, cannot be read, or has a header marker
\* without its closing marker; a block cut off before its content adds no
\* entry, and the entries of the blocks before it are kept.
ParserFailureModes ==
    pc = "ready" =>
        /\ ~raised
        /\ (\/ shadow.load \in {"absent", "read_fails"}
            \/ shadow.load = "read" /\ UnclosedHeader(snapshot_file.text))
           => previous_snapshots = <<>>
        /\ (/\ shadow.load = "read"
            /\ ~UnclosedHeader(snapshot_file.text)
            /\ CutOffBlock(snapshot_file.text))
           => AsMap(previous_snapshots)
                = AsMap(load_previous_snapshots(WithoutLastLine(snapshot_file.text),
                                                <<>>, TRUE).previous_snapshots)

\* a file that ends in a cut-off block and still yields an entry
CutOffBlockAfterCompleteBlock ==
    /\ Parsed
    /\ ~UnclosedHeader(snapshot_file.text)
    /\ CutOffBlock(snapshot_file.text)
    /\ previous_snapshots # <<>>

\* the lines the loop of line 151 meets, section after section
LineStream(text) ==
    LET sections == Split(DropHeader(text).content, SEPARATOR_LINE)
    IN  Concat([i \in 1..Len(sections) |-> SectionLines(sections[i])])

\* a block reaches from a File: line to the line before the next one
FileLines(L) == {i \in 1..Len(L) : StartsWith(L[i], FILE_PREFIX)}

BlockEnd(L, i) ==
    LET later == {j \in FileLines(L) : j > i}
    IN  IF later = {} THEN Len(L) ELSE (CHOOSE j \in later : \A k \in later : j <= k) - 1

BlockPath(L, i) == Strip(Replace(L[i], FILE_PREFIX, <<>>))

Markers(L, i) == {m \in (i + 1)..BlockEnd(L, i) : Strip(L[m]) = FINAL_CONTENT}

LastMarker(L, i) == CHOOSE m \in Markers(L, i) : \A n \in Markers(L, i) : n <= m

\* a line that enters the content: not blank, no timestamp, no status
IsContentLine(line) ==
    /\ Strip(line) # <<>>
    /\ ~StartsWith(line, SNAPSHOT_CREATED_AT)
    /\ ~StartsWith(line, STATUS_NEW)
    /\ ~StartsWith(line, STATUS_DELETED)

AfterLastMarker(L, i) ==
    IF Markers(L, i) = {} THEN <<>>
    ELSE SelectSeq(SubSeq(L, LastMarker(L, i) + 1, BlockEnd(L, i)), IsContentLine)

Commits(L, i) == BlockPath(L, i) # <<>> /\ AfterLastMarker(L, i) # <<>>

\* the block opens with the status DELETED
DeletedStatus(L, i) ==
    \E j \in (i + 1)..BlockEnd(L, i) :
        /\ StartsWith(L[j], STATUS_DELETED)
        /\ \A k \in (i + 1)..(j - 1) : Strip(L[k]) = <<>>

\* no other block of the text names the path of block i
OnlyBlockOfItsPath(L, i) ==
    \A j \in FileLines(L) \ {i} : BlockPath(L, j) # BlockPath(L, i)

\* C9, as stated: a block with the status DELETED contributes no entry, a
\* block in which no FINAL CONTENT: line is reached contributes no entry,
\* and the content committed for any other block holds only lines that
\* follow the last FINAL CONTENT: marker of the block.
ParserBlockPolicy ==
    (Parsed /\ ~UnclosedHeader(snapshot_file.text)) =>
        LET L == LineStream(snapshot_file.text)
        IN  \A i \in {j \in FileLines(L) : OnlyBlockOfItsPath(L, j)} :
                /\ DeletedStatus(L, i) => ~HasKey(previous_snapshots, BlockPath(L, i))
                /\ Markers(L, i) = {} => ~HasKey(previous_snapshots, BlockPath(L, i))
                /\ (Markers(L, i) # {} /\ HasKey(previous_snapshots, BlockPath(L, i)))
                   => \A line \in PathSet(Split(Get(previous_snapshots, BlockPath(L, i)), NL)) :
                         \E m \in (LastMarker(L, i) + 1)..BlockEnd(L, i) : L[m] = line

\* C9, amended: the parser does not read the status. A block, from a File:
\* line to the next, contributes an entry exactly when its path is not
\* empty and content lines follow its last FINAL CONTENT: marker; the
\* entry is those lines, and of two blocks of one path the later one wins.
\* So a block without a marker contributes nothing, a DELETED block
\* contributes nothing unless a marker follows, and no line before the
\* last marker (diff, NEW echo) is in the content.
ParserBlockPolicyStatusBlind ==
    (Parsed /\ ~UnclosedHeader(snapshot_file.text)) =>
        LET L == LineStream(snapshot_file.text)
            winners == {i \in FileLines(L) :
                          /\ Commits(L, i)
                          /\ \A j \in FileLines(L) :
                                (j > i /\ Commits(L, j)) => BlockPath(L, j) # BlockPath(L, i)}
        IN  AsMap(previous_snapshots)
                = {<<BlockPath(L, i), Join(AfterLastMarker(L, i), NL)>> : i \in winners}

\* a block that opens with DELETED and commits the line after its marker
DeletedBlockCommits ==
    /\ Parsed
    /\ ~UnclosedHeader(snapshot_file.text)
    /\ \E i \in FileLines(LineStream(snapshot_file.text)) :
          /\ DeletedStatus(LineStream(snapshot_file.text), i)
          /\ Markers(LineStream(snapshot_file.text), i) # {}
          /\ HasKey(previous_snapshots, BlockPath(LineStream(snapshot_file.text), i))

\* contents of a file on disk that no parsed value can equal
NeverParsedContents ==
    {<<>>, <<"x", "\n">>, <<"x", "\n", "\n", "y">>, <<" ", "\n", "x">>,
     STATUS_NEW \o <<"S">>, <<"x", "\n">> \o FILE_PREFIX \o <<"q">>}

\* C10: after load_previous_snapshots, whatever the text of the file, every
\* value of previous_snapshots is a non-empty string that does not end in a
\* line break, has no empty or blank line, no line that starts with File: ,
\* NEW, DELETED or Snapshot created at:, and no line that is FINAL CONTENT:
\* once trimmed; so a file whose content is empty, ends in a line break or
\* has such a line never equals its parsed previous content.
ParsedValuesInvariant ==
    pc = "ready" =>
        \A i \in 1..Len(previous_snapshots) :
            LET value == previous_snapshots[i].content
                lines == Split(value, NL)
            IN  /\ value # <<>>
                /\ ~EndsWith(value, NL)
                /\ \A j \in 1..Len(lines) :
                      /\ Strip(lines[j]) # <<>>
                      /\ ~StartsWith(lines[j], FILE_PREFIX)
                      /\ ~StartsWith(lines[j], STATUS_NEW)
                      /\ ~StartsWith(lines[j], STATUS_DELETED)
                      /\ ~StartsWith(lines[j], SNAPSHOT_CREATED_AT)
                      /\ Strip(lines[j]) # FINAL_CONTENT
                /\ value \notin NeverParsedContents

\* a parsed value of two lines, after a status line that was left out
TwoLineValueParsed ==
    /\ Parsed
    /\ \E i \in 1..Len(previous_snapshots) :
          Len(Split(previous_snapshots[i].content, NL)) = 2

=============================================================================
